---- MODULE Spec2Model ----
(***************************************************************************)
(* Model of answerly_agent.py: a Streamlit script that is executed from    *)
(* top to bottom on every run.  One run is: sidebar selection, API key     *)
(* validation (one probe call), agent construction, task dispatch.         *)
(* st.stop() ends the run; an uncaught exception ends the run as well.     *)
(* Emoji prefixes of the user-facing labels are left out of the strings.   *)
(***************************************************************************)
EXTENDS Integers, Sequences, FiniteSets, TLC

\* ------------------------------------------------------------------ bounds
\* Number of script runs (Streamlit reruns) followed in one session.
MaxRuns == 3

\* ------------------------------------------------------------ input domains
Providers == {"OpenAI", "Gemini"}

\* Candidate credentials typed by the user; "" is the empty text input.
Keys == {"", "k1", "k2"}

\* Candidate task strings; "" is the empty text input.
Tasks == {"", "t1"}

\* Diagnostic texts carried by exceptions, and answers produced by the agent.
Diags == {"d1", "d2"}
Answers == {"a1"}

\* Value of a script variable that no statement of the run has assigned.
Unbound == "<unbound>"

\* The model enumeration offered for each provider.
ModelsOf(p) ==
  IF p = "OpenAI" THEN {"gpt-3.5-turbo", "gpt-4", "gpt-4o"}
  ELSE {"models/gemini-1.5-flash", "models/gemini-1.5-pro"}

\* ------------------------------------------------------- exception classes
\* Direct base class of each exception class that the script imports or
\* that a call may raise (openai and google.api_core hierarchies).
Parent ==
  [c \in {"Exception", "OpenAIError", "APIError", "APIStatusError",
          "AuthenticationError", "RateLimitError", "APIConnectionError",
          "GoogleAPIError", "GoogleAPICallError", "ClientError",
          "TooManyRequests", "ResourceExhausted", "BadRequest",
          "InvalidArgument", "NotFound", "ValueError"} |->
     CASE c = "Exception" -> "BaseException"
       [] c = "OpenAIError" -> "Exception"
       [] c = "APIError" -> "OpenAIError"
       [] c = "APIStatusError" -> "APIError"
       [] c = "AuthenticationError" -> "APIStatusError"
       [] c = "RateLimitError" -> "APIStatusError"
       [] c = "APIConnectionError" -> "APIError"
       [] c = "GoogleAPIError" -> "Exception"
       [] c = "GoogleAPICallError" -> "GoogleAPIError"
       [] c = "ClientError" -> "GoogleAPICallError"
       [] c = "TooManyRequests" -> "ClientError"
       [] c = "ResourceExhausted" -> "TooManyRequests"
       [] c = "BadRequest" -> "ClientError"
       [] c = "InvalidArgument" -> "BadRequest"
       [] c = "NotFound" -> "ClientError"
       [] c = "ValueError" -> "Exception"]

\* isinstance(e, h) for an exception e of class c: h is c or a base of c.
RECURSIVE IsSubclass(_, _)
IsSubclass(c, h) ==
  IF c = h THEN TRUE
  ELSE IF c \in DOMAIN Parent THEN IsSubclass(Parent[c], h)
  ELSE FALSE

\* Concrete classes a provider call, or the agent, may raise.
Raisable == {"AuthenticationError", "RateLimitError", "APIConnectionError",
             "OpenAIError", "ResourceExhausted", "InvalidArgument",
             "NotFound", "ClientError", "ValueError"}

\* Variant of Str: the exception's class name instead of its text.
Str_ClassName(e) == e.cls

\* str(e): the diagnostic text of the exception.
Str(e) == e.msg

\* ----------------------------------------------------------- except chains
\* One entry per except clause, in source order: the class it names, the
\* st.error label, whether st.code(str(e)) follows, whether st.stop()
\* follows, and the error category the label stands for.
\* Variant of OpenAIHandlers: the first clause lacks st.stop().
OpenAIHandlers_NoStop ==
  << [cls |-> "AuthenticationError", label |-> "Invalid OpenAI API key.",
      showDiag |-> FALSE, stop |-> FALSE, cat |-> "InvalidCredential"],
     [cls |-> "RateLimitError", label |-> "Quota exceeded or rate-limited.",
      showDiag |-> TRUE, stop |-> TRUE, cat |-> "QuotaExceeded"],
     [cls |-> "OpenAIError", label |-> "OpenAI error occurred.",
      showDiag |-> TRUE, stop |-> TRUE, cat |-> "TransientProviderError"],
     [cls |-> "Exception", label |-> "Unknown error.",
      showDiag |-> TRUE, stop |-> TRUE, cat |-> "UnknownError"] >>

\* Variant of OpenAIHandlers: the OpenAIError clause comes first.
OpenAIHandlers_GeneralFirst ==
  << [cls |-> "OpenAIError", label |-> "OpenAI error occurred.",
      showDiag |-> TRUE, stop |-> TRUE, cat |-> "TransientProviderError"],
     [cls |-> "AuthenticationError", label |-> "Invalid OpenAI API key.",
      showDiag |-> FALSE, stop |-> TRUE, cat |-> "InvalidCredential"],
     [cls |-> "RateLimitError", label |-> "Quota exceeded or rate-limited.",
      showDiag |-> TRUE, stop |-> TRUE, cat |-> "QuotaExceeded"],
     [cls |-> "Exception", label |-> "Unknown error.",
      showDiag |-> TRUE, stop |-> TRUE, cat |-> "UnknownError"] >>

OpenAIHandlers ==
  << [cls |-> "AuthenticationError", label |-> "Invalid OpenAI API key.",
      showDiag |-> FALSE, stop |-> TRUE, cat |-> "InvalidCredential"],
     [cls |-> "RateLimitError", label |-> "Quota exceeded or rate-limited.",
      showDiag |-> TRUE, stop |-> TRUE, cat |-> "QuotaExceeded"],
     [cls |-> "OpenAIError", label |-> "OpenAI error occurred.",
      showDiag |-> TRUE, stop |-> TRUE, cat |-> "TransientProviderError"],
     [cls |-> "Exception", label |-> "Unknown error.",
      showDiag |-> TRUE, stop |-> TRUE, cat |-> "UnknownError"] >>

GeminiHandlers ==
  << [cls |-> "ResourceExhausted", label |-> "Gemini quota exceeded.",
      showDiag |-> TRUE, stop |-> TRUE, cat |-> "QuotaExceeded"],
     [cls |-> "InvalidArgument",
      label |-> "Invalid Gemini API key or model name.",
      showDiag |-> FALSE, stop |-> TRUE, cat |-> "InvalidCredential"],
     [cls |-> "NotFound", label |-> "Gemini model not found.",
      showDiag |-> FALSE, stop |-> TRUE, cat |-> "ModelNotFound"],
     [cls |-> "Exception", label |-> "Gemini error.",
      showDiag |-> TRUE, stop |-> TRUE, cat |-> "UnknownError"] >>

\* Python's except dispatch: the first clause, in order, whose class the
\* exception is an instance of.
FirstMatch(chain, c) ==
  chain[CHOOSE i \in 1..Len(chain) :
          /\ IsSubclass(c, chain[i].cls)
          /\ \A j \in 1..(i - 1) : ~IsSubclass(c, chain[j].cls)]

\* Variant of Render: no clause shows the diagnostic.
Render_LabelOnly(h, e) == << [kind |-> "error", text |-> h.label] >>

\* What an except clause renders: st.error(label), then st.code(str(e))
\* when the clause has it.
Render(h, e) ==
  << [kind |-> "error", text |-> h.label] >> \o
  (IF h.showDiag THEN << [kind |-> "code", text |-> Str(e)] >> ELSE << >>)

\* ------------------------------------------------------------------- state
VARIABLES
  pc,          \* position of the run in the script
  run,         \* index of the current run
  provider,    \* selected provider
  model_name,  \* selected model
  openai_key,  \* OpenAI key text input (Unbound when Gemini is selected)
  gemini_key,  \* Gemini key text input (Unbound when OpenAI is selected)
  task,        \* task text input (Unbound until the main app section)
  ui,          \* elements rendered in the main area during this run
  probes,      \* test_llm.invoke requests issued during this run
  network,     \* network requests issued during this run, in order
  probeResult, \* "none", "missing", "ok" or "raised"
  exc,         \* the exception caught in this run (NoExc when none)
  caught,      \* class named by the except clause that handled exc
  outcome,     \* category of the run's outcome
  llm,         \* the client bound by the agent builder (NoLLM when none)
  built,       \* agent_executor has been constructed in this run
  invokes,     \* number of agent_executor.invoke calls in this run
  response,    \* output text of the executor's response (Unbound when none)
  history      \* triples whose probe succeeded in earlier runs

vars == << pc, run, provider, model_name, openai_key, gemini_key, task, ui,
           probes, network, probeResult, exc, caught, outcome, llm, built,
           invokes, response, history >>

NoExc == [cls |-> "None", msg |-> "None"]
NoLLM == [provider |-> "None", model |-> "None", key |-> "None"]

\* The credential variable that belongs to the selected provider.
SelectedKey == IF provider = "OpenAI" THEN openai_key ELSE gemini_key
OtherKey == IF provider = "OpenAI" THEN gemini_key ELSE openai_key

\* Variant of MissingKey: the missing-key check never fires.
MissingKey_Never(k) == FALSE

\* `not openai_key` / `not gemini_key`
MissingKey(k) == k = ""

\* Variant of TaskGiven: the task guard always passes.
TaskGiven_Always(t) == TRUE

\* `if task:`
TaskGiven(t) == t # ""

\* The requests the try body sends: one test_llm.invoke on a client built
\* from the selected model and the selected provider's key.
OpenAIProbe(m, k) == << [provider |-> "OpenAI", model |-> m, key |-> k] >>

\* Variant of GeminiProbe: the request is sent a second time.
GeminiProbe_Retry(m, k) ==
  << [provider |-> "Gemini", model |-> m, key |-> k],
     [provider |-> "Gemini", model |-> m, key |-> k] >>

GeminiProbe(m, k) == << [provider |-> "Gemini", model |-> m, key |-> k] >>

\* Variant of LLMFor: the provider test is inverted.
LLMFor_Swapped(p, m, ok, gk) ==
  IF p # "OpenAI" THEN [provider |-> "OpenAI", model |-> m, key |-> ok]
  ELSE [provider |-> "Gemini", model |-> m, key |-> gk]

\* The client the builder binds.
LLMFor(p, m, ok, gk) ==
  IF p = "OpenAI" THEN [provider |-> "OpenAI", model |-> m, key |-> ok]
  ELSE [provider |-> "Gemini", model |-> m, key |-> gk]

\* Results of a provider call or of the executor: a return value or a raised
\* exception with its diagnostic text.
CallResults ==
  [ok : {TRUE}, output : Answers, cls : {"None"}, msg : {"None"}] \cup
  [ok : {FALSE}, output : {Unbound}, cls : Raisable, msg : Diags]

\* Variant of DispatchRender: st.success precedes the executor call.
DispatchRender_SuccessFirst(r) ==
  IF r.ok
  THEN << [kind |-> "success", text |-> "Done"],
          [kind |-> "write", text |-> r.output] >>
  ELSE << [kind |-> "success", text |-> "Done"],
          [kind |-> "error", text |-> "Agent failed"],
          [kind |-> "code", text |-> Str(r)] >>

\* What the dispatcher renders for an executor result.
DispatchRender(r) ==
  IF r.ok
  THEN << [kind |-> "success", text |-> "Done"],
          [kind |-> "write", text |-> r.output] >>
  ELSE << [kind |-> "error", text |-> "Agent failed"],
          [kind |-> "code", text |-> Str(r)] >>

\* The script's namespace and the page before any statement has run.
FreshRun ==
  /\ provider = Unbound /\ model_name = Unbound
  /\ openai_key = Unbound /\ gemini_key = Unbound /\ task = Unbound
  /\ ui = << >> /\ probes = << >> /\ network = << >>
  /\ probeResult = "none" /\ exc = NoExc /\ caught = "None"
  /\ outcome = "None" /\ llm = NoLLM /\ built = FALSE /\ invokes = 0
  /\ response = Unbound

Init ==
  /\ pc = "sidebar" /\ run = 1 /\ history = {}
  /\ FreshRun

\* ----------------------------------------------------------------- actions
\* Sidebar: the provider select box, then the key input and model select box
\* of that provider only.
Sidebar ==
  /\ pc = "sidebar"
  /\ \E p \in Providers : \E k \in Keys : \E m \in ModelsOf(p) :
       /\ provider' = p
       /\ model_name' = m
       /\ openai_key' = (IF p = "OpenAI" THEN k ELSE Unbound)
       /\ gemini_key' = (IF p = "OpenAI" THEN Unbound ELSE k)
  /\ pc' = "validate"
  /\ UNCHANGED << run, task, ui, probes, network, probeResult, exc, caught,
                  outcome, llm, built, invokes, response, history >>

\* The validation section of one provider: missing-key branch, then the try
\* body and its except chain.
Validate(key, prompt, reqs, chain) ==
  IF MissingKey(key)
  THEN /\ ui' = ui \o << [kind |-> "info", text |-> prompt] >>
       /\ probeResult' = "missing"
       /\ outcome' = "MissingCredential"
       /\ pc' = "stopped"
       /\ UNCHANGED << probes, network, exc, caught >>
  ELSE \E r \in CallResults :
       /\ probes' = probes \o reqs
       /\ network' = network \o [i \in 1..Len(reqs) |-> "probe"]
       /\ IF r.ok
          THEN /\ probeResult' = "ok"
               /\ pc' = "build"
               /\ UNCHANGED << ui, exc, caught, outcome >>
          ELSE LET e == [cls |-> r.cls, msg |-> r.msg]
                   h == FirstMatch(chain, e.cls)
               IN /\ probeResult' = "raised"
                  /\ exc' = e
                  /\ caught' = h.cls
                  /\ outcome' = h.cat
                  /\ ui' = ui \o Render(h, e)
                  /\ pc' = (IF h.stop THEN "stopped" ELSE "build")

ValidateOpenAI ==
  /\ pc = "validate"
  /\ provider = "OpenAI"
  /\ Validate(openai_key, "Enter your OpenAI API key to continue.",
              OpenAIProbe(model_name, openai_key), OpenAIHandlers)
  /\ UNCHANGED << run, provider, model_name, openai_key, gemini_key, task,
                  llm, built, invokes, response, history >>

ValidateGemini ==
  /\ pc = "validate"
  /\ provider # "OpenAI"
  /\ Validate(gemini_key, "Enter your Gemini API key to continue.",
              GeminiProbe(model_name, gemini_key), GeminiHandlers)
  /\ UNCHANGED << run, provider, model_name, openai_key, gemini_key, task,
                  llm, built, invokes, response, history >>

\* Build Agent: bind the client, pull the prompt template (a network fetch),
\* load the search tool, create the agent and its executor.  No try block
\* surrounds these statements: a raise in pull or load_tools ends the run.
BuildAgent ==
  /\ pc = "build"
  /\ llm' = LLMFor(provider, model_name, openai_key, gemini_key)
  /\ network' = network \o << "pull" >>
  /\ \E res \in {"ok", "pull_raises", "load_tools_raises"} :
       /\ built' = (res = "ok")
       /\ pc' = (IF res = "ok" THEN "main" ELSE "crashed")
  /\ UNCHANGED << run, provider, model_name, openai_key, gemini_key, task,
                  ui, probes, probeResult, exc, caught, outcome, invokes,
                  response, history >>

\* Main App: title, task input, and for a non-empty task one executor call
\* inside try/except.
MainApp ==
  /\ pc = "main"
  /\ \E t \in Tasks :
       /\ task' = t
       /\ IF TaskGiven(t)
          THEN \E r \in CallResults :
               /\ invokes' = invokes + 1
               /\ network' = network \o << "executor" >>
               /\ ui' = ui \o << [kind |-> "title", text |-> "AI Agent"] >>
                           \o DispatchRender(r)
               /\ response' = r.output
               /\ exc' = (IF r.ok THEN NoExc
                          ELSE [cls |-> r.cls, msg |-> r.msg])
               /\ caught' = (IF r.ok THEN "None" ELSE "Exception")
               /\ outcome' = (IF r.ok THEN "Success"
                              ELSE "AgentExecutionFailure")
          ELSE /\ ui' = ui \o << [kind |-> "title", text |-> "AI Agent"] >>
               /\ UNCHANGED << invokes, network, response, exc, caught,
                               outcome >>
  /\ pc' = "done"
  /\ UNCHANGED << run, provider, model_name, openai_key, gemini_key, probes,
                  probeResult, llm, built, history >>

\* A user interaction reruns the script from the top in a fresh namespace.
Rerun ==
  /\ pc \in {"stopped", "done", "crashed"}
  /\ run < MaxRuns
  /\ run' = run + 1
  /\ history' = history \cup
                  (IF probeResult = "ok" THEN {probes[i] : i \in 1..Len(probes)}
                   ELSE {})
  /\ pc' = "sidebar"
  /\ provider' = Unbound /\ model_name' = Unbound
  /\ openai_key' = Unbound /\ gemini_key' = Unbound /\ task' = Unbound
  /\ ui' = << >> /\ probes' = << >> /\ network' = << >>
  /\ probeResult' = "none" /\ exc' = NoExc /\ caught' = "None"
  /\ outcome' = "None" /\ llm' = NoLLM /\ built' = FALSE /\ invokes' = 0
  /\ response' = Unbound

Next ==
  \/ Sidebar
  \/ ValidateOpenAI
  \/ ValidateGemini
  \/ BuildAgent
  \/ MainApp
  \/ Rerun

Spec == Init /\ [][Next]_vars

\* ----------------------------------------------------------------- helpers
IsError(x) == x.kind = "error"
IsCode(x) == x.kind = "code"
IsSuccess(x) == x.kind = "success"
ErrorElems == SelectSeq(ui, IsError)
CodeElems == SelectSeq(ui, IsCode)
IsProbeReq(x) == x = "probe"
IsExecutorReq(x) == x = "executor"

\* The run has passed the validation section.
PastValidation == pc \notin {"sidebar", "validate"}

\* The except chain of the selected provider.
ChainOf(p) == IF p = "OpenAI" THEN OpenAIHandlers ELSE GeminiHandlers

\* The triple selected in the sidebar of this run.
SelectedTriple ==
  [provider |-> provider, model |-> model_name, key |-> SelectedKey]

\* ------------------------------------------------------------------ claims
\* C1: the agent builder and the executor run only in a run whose validation
\* probe returned without raising; a run whose probe raised, or whose
\* credential is empty, is stopped with no client bound, no executor built
\* and no executor call.
C1_ProbeGatesAgent ==
  /\ (llm # NoLLM \/ built \/ invokes > 0 \/ pc \in {"main", "done", "crashed"})
       => probeResult = "ok"
  /\ probeResult \in {"missing", "raised"}
       => (pc = "stopped" /\ llm = NoLLM /\ ~built /\ invokes = 0)

C1_Witness ==
  /\ pc = "stopped" /\ probeResult = "raised" /\ exc.cls = "ValueError"

\* C2: for both providers an empty credential gives the MissingCredential
\* outcome, rendered as one informational prompt and no error banner, and
\* the run stops without any probe or other network request.
C2_MissingCredential ==
  (PastValidation /\ SelectedKey = "")
    => /\ outcome = "MissingCredential"
       /\ pc = "stopped"
       /\ Len(ui) = 1 /\ ui[1].kind = "info"
       /\ ErrorElems = << >>
       /\ probes = << >> /\ network = << >>

C2_Witness == pc = "stopped" /\ provider = "Gemini" /\ gemini_key = ""

\* C3: a run with a non-empty credential issues exactly one probe request,
\* for the selected provider, model and key: no second attempt after a
\* failure, no request to the other provider, and no skipping when an
\* earlier run validated the same triple.
C3_ExactlyOneProbe ==
  /\ Len(probes) <= 1
  /\ (PastValidation /\ SelectedKey # "")
       => /\ probes = << SelectedTriple >>
          /\ Len(SelectSeq(network, IsProbeReq)) = 1

C3_Witness ==
  /\ PastValidation /\ Len(probes) = 1 /\ probes[1] \in history
  /\ probeResult = "raised"

\* The category the classification policy assigns to an exception class.
C4_Expected(p, c) ==
  IF p = "OpenAI"
  THEN IF IsSubclass(c, "AuthenticationError") THEN "InvalidCredential"
       ELSE IF IsSubclass(c, "RateLimitError") THEN "QuotaExceeded"
       ELSE IF IsSubclass(c, "OpenAIError") THEN "TransientProviderError"
       ELSE "UnknownError"
  ELSE IF IsSubclass(c, "ResourceExhausted") THEN "QuotaExceeded"
       ELSE IF IsSubclass(c, "InvalidArgument") THEN "InvalidCredential"
       ELSE IF IsSubclass(c, "NotFound") THEN "ModelNotFound"
       ELSE "UnknownError"

\* C4: every exception raised by the probe is put in exactly one category,
\* the one the per-provider policy names, with one error banner, and the
\* clause that handles it is the most specific clause of the chain that
\* matches it.
C4_Classification ==
  probeResult = "raised"
    => /\ outcome = C4_Expected(provider, exc.cls)
       /\ Len(ErrorElems) = 1
       /\ \A i \in 1..Len(ChainOf(provider)) :
            IsSubclass(exc.cls, ChainOf(provider)[i].cls)
              => IsSubclass(caught, ChainOf(provider)[i].cls)

C4_Witness ==
  /\ probeResult = "raised" /\ provider = "OpenAI"
  /\ exc.cls = "AuthenticationError" /\ outcome = "InvalidCredential"

\* The run ended in an error outcome other than MissingCredential.
ErrorOutcome == outcome \notin {"None", "MissingCredential", "Success"}

\* The clauses that show the label only.
LabelOnlyClasses == {"AuthenticationError", "InvalidArgument", "NotFound"}

\* C5 as stated: every error outcome other than MissingCredential shows a
\* category label together with the raw diagnostic text of the exception.
C5_AllShowDiagnostic ==
  ErrorOutcome
    => /\ Len(ErrorElems) = 1
       /\ CodeElems = << [kind |-> "code", text |-> exc.msg] >>

\* C5 amended: every error outcome other than MissingCredential shows one
\* category label; the raw diagnostic text follows it for every outcome
\* except those handled by the AuthenticationError, InvalidArgument and
\* NotFound clauses, which show the label alone.
C5_LabelAndDiagnostic ==
  ErrorOutcome
    => /\ Len(ErrorElems) = 1
       /\ ui[Len(ui)].kind \in {"error", "code"}
       /\ IF caught \in LabelOnlyClasses
          THEN CodeElems = << >> /\ ui[Len(ui)].kind = "error"
          ELSE /\ CodeElems = << [kind |-> "code", text |-> exc.msg] >>
               /\ ui[Len(ui)].kind = "code"
               /\ ui[Len(ui) - 1].kind = "error"

C5_Witness ==
  /\ ErrorOutcome /\ outcome = "UnknownError" /\ provider = "Gemini"
  /\ CodeElems # << >>

\* C6: when the probe fails with the provider's quota / rate-limit
\* exception, the page shows the exception's diagnostic text unchanged and
\* the run is stopped.
C6_QuotaDiagnostic ==
  (/\ probeResult = "raised"
   /\ \/ provider = "OpenAI" /\ IsSubclass(exc.cls, "RateLimitError")
      \/ provider = "Gemini" /\ IsSubclass(exc.cls, "ResourceExhausted"))
    => /\ pc = "stopped"
       /\ \E i \in 1..Len(ui) : ui[i] = [kind |-> "code", text |-> exc.msg]

C6_Witness ==
  /\ probeResult = "raised" /\ provider = "Gemini"
  /\ exc.cls = "ResourceExhausted" /\ exc.msg = "d2"

\* C7 as stated: a run with an empty task makes no executor call and
\* produces no network traffic.
C7_EmptyTaskNoNetwork ==
  (pc = "done" /\ task = "") => (invokes = 0 /\ network = << >>)

\* C7 amended: a run with an empty task makes no executor call and the
\* dispatcher sends nothing; the run's network traffic is the validation
\* probe and the builder's template pull, both issued before the task guard.
C7_EmptyTaskNoExecutor ==
  (pc = "done" /\ task = "")
    => /\ invokes = 0
       /\ SelectSeq(network, IsExecutorReq) = << >>
       /\ network = << "probe", "pull" >>
       /\ outcome = "None"

C7_Witness == pc = "done" /\ task = "" /\ built

\* C8: for a non-empty task the executor is invoked exactly once and the run
\* ends in exactly one of two ways: the success indication followed by the
\* answer text, or the failure indication followed by str(e), with no
\* success indication and no answer.
C8_DispatchOutcome ==
  (pc = "done" /\ task # "")
    => /\ invokes = 1
       /\ Len(SelectSeq(network, IsExecutorReq)) = 1
       /\ \/ /\ outcome = "Success"
             /\ exc = NoExc
             /\ response \in Answers
             /\ ui = << [kind |-> "title", text |-> "AI Agent"],
                        [kind |-> "success", text |-> "Done"],
                        [kind |-> "write", text |-> response] >>
          \/ /\ outcome = "AgentExecutionFailure"
             /\ exc # NoExc
             /\ ui = << [kind |-> "title", text |-> "AI Agent"],
                        [kind |-> "error", text |-> "Agent failed"],
                        [kind |-> "code", text |-> exc.msg] >>

C8_Witness ==
  /\ pc = "done" /\ task # "" /\ outcome = "AgentExecutionFailure"
  /\ SelectSeq(ui, IsSuccess) = << >>

\* C10: the client bound by the builder carries the provider, model and key
\* that the probe of the same run validated; the model is one of the selected
\* provider's enumeration and the other provider's key variable is not even
\* bound in the run.
C10_SameTriple ==
  llm # NoLLM
    => /\ Len(probes) = 1
       /\ llm = probes[1]
       /\ llm = SelectedTriple
       /\ llm.model \in ModelsOf(llm.provider)
       /\ llm.key \in Keys \ {""}
       /\ OtherKey = Unbound

C10_Witness == built /\ llm.provider = "Gemini" /\ llm.key = "k2"


\* ------------------------------------------------------------------- types
TypeOK ==
  /\ pc \in {"sidebar", "validate", "build", "main", "stopped", "done",
             "crashed"}
  /\ run \in 1..(MaxRuns + 1)
  /\ probeResult \in {"none", "missing", "ok", "raised"}
  /\ built \in BOOLEAN
  /\ invokes \in Nat

====
